---------------------------- MODULE Spec2Model ----------------------------
(***************************************************************************)
(* A model of the UHF library-tag page: the tag formats and the password  *)
(* derivation of TagFormat.ts (src/unnamed/part_000), the page state and   *)
(* its handlers (src/src/routes/+page.svelte), and the Code 40 codec the   *)
(* page imports from $lib/urncode40.                                       *)
(*                                                                         *)
(* Representation.  A JavaScript string is a sequence of one-character     *)
(* strings (<<"0","A">> is "0A"); a secret key is a sequence of Unicode    *)
(* code points; a Uint8Array's contents are a sequence of bytes, its       *)
(* element i (0-based, as in the source) being seq[i+1].                   *)
(***************************************************************************)
EXTENDS Integers, Sequences, FiniteSets, TLC

VARIABLES
    \* ---- the page (+page.svelte) ----
    selectedFormat,   \* index into tagFormats of the selected format
    heap,             \* the reachable Uint8Array objects: object id -> contents
    epcData,          \* the id of the Uint8Array the page's epcData refers to
    invalidInputs,    \* Set<number> of indices marked invalid
    killKey,          \* kill key text
    accessKey,        \* access key text
    nOps,             \* number of updateEpcData / selectFormat calls so far
    \* ---- one caller of TagFormat.ts ----
    args,             \* the arguments the caller passes
    frame,            \* the invocation in progress
    done,             \* the values returned so far, in order: records [fn, hashed, ret]
    nCalls,           \* number of invocations started so far
    \* ---- one use of the Code 40 codec ($lib/urncode40) ----
    codec,            \* the text, its encoding, and the decoding of that
    \* ---- what the page shows ----
    dom,              \* the texts rendered from decodedLibrarySignle / decodedMediaNumber
    \* ---- history ----
    lastCall,         \* index -> the text of the latest updateEpcData call for it
                      \* since the latest selectFormat
    \* ---- the derived promises and the blocks awaiting them ----
    derivations,      \* promise id -> the calculatePasswords invocation still running for
                      \* it: where it stands, then where each digest to come takes it
    awaitBlocks,      \* the two {#await} blocks: the promise each awaits, and what it shows
    nStarted          \* number of passwords promises created so far

pageVars == <<selectedFormat, heap, epcData, invalidInputs, killKey, accessKey, nOps>>
calcVars == <<args, frame, done, nCalls>>
asyncVars == <<derivations, awaitBlocks, nStarted>>
extVars == <<dom, lastCall, asyncVars>>
vars == <<pageVars, calcVars, codec, extVars>>

(***************************************************************************)
(* Bounds of the model.                                                    *)
(***************************************************************************)
MaxOps == 2
MaxCalls == 2
MaxDerivations == 3

(***************************************************************************)
(* JavaScript primitives used by the source.                               *)
(***************************************************************************)
Min(a, b) == IF a <= b THEN a ELSE b
Max(a, b) == IF a >= b THEN a ELSE b

\* a & b on non-negative integers
RECURSIVE BitAnd(_, _)
BitAnd(a, b) ==
    IF a = 0 \/ b = 0 THEN 0
    ELSE 2 * BitAnd(a \div 2, b \div 2) + (IF a % 2 = 1 /\ b % 2 = 1 THEN 1 ELSE 0)

\* TypedArray.prototype.slice(start, end) / Array.prototype.slice on contents
Slice(arr, start, end) ==
    LET len == Len(arr)
        from == IF start < 0 THEN Max(len + start, 0) ELSE Min(start, len)
        to == IF end < 0 THEN Max(len + end, 0) ELSE Min(end, len)
    IN  SubSeq(arr, from + 1, to)

HexDigitsLower == <<"0","1","2","3","4","5","6","7","8","9","a","b","c","d","e","f">>
HexDigitsUpper == <<"0","1","2","3","4","5","6","7","8","9","A","B","C","D","E","F">>

IsHexDigit(c) == \E v \in 1..16 : HexDigitsLower[v] = c \/ HexDigitsUpper[v] = c
HexValue(c) == (CHOOSE v \in 1..16 : HexDigitsLower[v] = c \/ HexDigitsUpper[v] = c) - 1

\* Number.prototype.toString(16) of a non-negative integer
RECURSIVE toString16(_)
toString16(n) ==
    IF n < 16 THEN <<HexDigitsLower[n + 1]>>
    ELSE toString16(n \div 16) \o <<HexDigitsLower[(n % 16) + 1]>>

\* String.prototype.padStart(targetLength, padChar)
RECURSIVE padStart(_, _, _)
padStart(s, targetLength, c) ==
    IF Len(s) >= targetLength THEN s ELSE padStart(<<c>> \o s, targetLength, c)

\* String.prototype.toUpperCase on the characters a hexadecimal rendering holds
toUpperCase(s) ==
    [i \in 1..Len(s) |->
        IF \E v \in 11..16 : HexDigitsLower[v] = s[i]
        THEN HexDigitsUpper[CHOOSE v \in 11..16 : HexDigitsLower[v] = s[i]]
        ELSE s[i]]

\* Array.prototype.join('') of a sequence of strings
RECURSIVE join(_)
join(parts) == IF parts = <<>> THEN <<>> ELSE Head(parts) \o join(Tail(parts))

\* The longest prefix of s made of hexadecimal digits
RECURSIVE HexPrefix(_)
HexPrefix(s) ==
    IF s = <<>> \/ ~IsHexDigit(Head(s)) THEN <<>> ELSE <<Head(s)>> \o HexPrefix(Tail(s))

RECURSIVE HexNumber(_, _)
HexNumber(s, acc) ==
    IF s = <<>> THEN acc ELSE HexNumber(Tail(s), acc * 16 + HexValue(Head(s)))

RECURSIVE StripLeadingSpace(_)
StripLeadingSpace(s) ==
    IF s # <<>> /\ Head(s) = " " THEN StripLeadingSpace(Tail(s)) ELSE s

\* parseInt(s, 16): leading white space, a sign, an optional 0x, then the
\* longest run of digits; NaN when that run is empty.
parseInt16(str) ==
    LET s0 == StripLeadingSpace(str)
        signed == s0 # <<>> /\ Head(s0) \in {"-", "+"}
        negative == s0 # <<>> /\ Head(s0) = "-"
        s1 == IF signed THEN Tail(s0) ELSE s0
        s2 == IF Len(s1) >= 2 /\ s1[1] = "0" /\ s1[2] \in {"x", "X"}
              THEN Tail(Tail(s1)) ELSE s1
        digits == HexPrefix(s2)
    IN  IF digits = <<>> THEN [nan |-> TRUE, num |-> 0]
        ELSE [nan |-> FALSE,
              num |-> IF negative THEN 0 - HexNumber(digits, 0) ELSE HexNumber(digits, 0)]

\* The value a Uint8Array element takes when a number is stored in it
ToUint8(n) == IF n.nan THEN 0 ELSE n.num % 256

\* TextEncoder.encode: the UTF-8 bytes of a string of code points
RECURSIVE encodeUtf8(_)
encodeUtf8(s) ==
    IF s = <<>> THEN <<>>
    ELSE LET cp == Head(s)
             bytes == IF cp < 128 THEN <<cp>>
                      ELSE IF cp < 2048 THEN <<192 + (cp \div 64), 128 + (cp % 64)>>
                      ELSE <<224 + (cp \div 4096), 128 + ((cp \div 64) % 64), 128 + (cp % 64)>>
         IN  bytes \o encodeUtf8(Tail(s))

\* crypto.subtle.digest('SHA-512', message): the platform's hash, abstracted
\* as a fixed function of the message bytes that yields 64 bytes and is
\* sensitive to every byte, to their order and to the length.
RECURSIVE Absorb(_, _)
Absorb(message, acc) ==
    IF message = <<>> THEN acc
    ELSE Absorb(Tail(message), (acc * 31 + Head(message) + 1) % 65521)

DigestLength == 64

Squeeze(h) == [j \in 1..DigestLength |-> ((h + 1) * (2 * j + 1) + (h \div (j + 1))) % 256]

digestSHA512(message) == Squeeze(Absorb(message, 7))

\* `undefined`: an omitted optional string argument (no code point is negative)
Undefined == << -1 >>
\* (mutant) only `undefined` counts as absent: the empty string is hashed
TruthyNotUndefined(s) == s # Undefined

\* JavaScript truthiness of an optional string
Truthy(s) == s # Undefined /\ s # <<>>

(***************************************************************************)
(* TagFormat.ts                                                            *)
(***************************************************************************)
exampleTagFormat ==
    [ name |-> "UB Dortmund 128-bit EPC",
      blocks |-> <<
        [name |-> "EPC-CRC", sizeBits |-> 16, editable |-> FALSE, value |-> <<248, 212>>],
        [name |-> "EPC-PC", sizeBits |-> 16, editable |-> FALSE, value |-> <<64, 0>>],
        [name |-> "EPC-DATA", sizeBits |-> 128, editable |-> TRUE,
         value |-> <<25, 233, 248, 113, 0, 0, 0, 0, 7, 91, 205, 21, 0, 0, 0, 1>>],
        [name |-> "RES", sizeBits |-> 64, editable |-> FALSE,
         value |-> <<40, 47, 253, 251, 226, 226, 33, 222>>] >>,
      passwordBytes |-> 12 ]

bookWavesTagFormat ==
    [ name |-> "Generic BookWaves 128-bit EPC",
      blocks |-> <<
        [name |-> "EPC-CRC", sizeBits |-> 16, editable |-> FALSE, value |-> <<248, 212>>],
        [name |-> "EPC-PC", sizeBits |-> 16, editable |-> FALSE, value |-> <<64, 0>>],
        [name |-> "EPC-DATA", sizeBits |-> 128, editable |-> TRUE,
         value |-> <<25, 233, 248, 113, 32, 33, 34, 35, 36, 37, 38, 39, 40, 41, 0, 1>>],
        [name |-> "RES", sizeBits |-> 64, editable |-> FALSE,
         value |-> <<40, 47, 253, 251, 226, 226, 33, 222>>] >>,
      passwordBytes |-> 14 ]

\* Array.from(bytes).map(b => b.toString(16).padStart(2, '0')).join('').toUpperCase()
bytesToHexUpper(bytes) ==
    toUpperCase(join([i \in 1..Len(bytes) |-> padStart(toString16(bytes[i]), 2, "0")]))

\* (mutant) the whole block is hashed, bytesToUse ignored
passwordMessageWholeBlock(epcBytes, secretKey, bytesToUse) ==
    epcBytes \o encodeUtf8(secretKey)

\* The message calculatePassword hashes: the sliced prefix, then the key bytes
passwordMessage(epcBytes, secretKey, bytesToUse) ==
    Slice(epcBytes, 0, bytesToUse) \o encodeUtf8(secretKey)

\* calculatePassword: the first 4 bytes of the digest of that message
calculatePassword(epcBytes, secretKey, bytesToUse) ==
    Slice(digestSHA512(passwordMessage(epcBytes, secretKey, bytesToUse)), 0, 4)

ZeroPassword == <<"0","0","0","0","0","0","0","0">>

\* calculateRES: for (i = 0; i < 8; i += 2) bytes[i/2] = parseInt(password.slice(i, i + 2), 16)
hexPasswordToBytes(password) ==
    [k \in 1..4 |-> ToUint8(parseInt16(Slice(password, 2 * (k - 1), 2 * (k - 1) + 2)))]

IdleFrame ==
    [ fn |-> "none", pc |-> "idle", epcData |-> <<>>, killKey |-> Undefined,
      accessKey |-> Undefined, bytesToUse |-> 0,
      killPassword |-> <<>>, accessPassword |-> <<>>, hashed |-> <<>>, res |-> <<>> ]

\* (mutant) the kill key is used for both derivations
enterCalculatePasswordsOneKey(fn, epcBytes, kKey, aKey, bytesToUse) ==
    [ fn |-> fn, pc |-> "L67", epcData |-> epcBytes, killKey |-> kKey,
      accessKey |-> kKey, bytesToUse |-> bytesToUse,
      killPassword |-> ZeroPassword, accessPassword |-> ZeroPassword,
      hashed |-> <<>>, res |-> <<>> ]

\* calculatePasswords entered: the two defaults are set, the kill key is tested next
enterCalculatePasswords(fn, epcBytes, kKey, aKey, bytesToUse) ==
    [ fn |-> fn, pc |-> "L67", epcData |-> epcBytes, killKey |-> kKey,
      accessKey |-> aKey, bytesToUse |-> bytesToUse,
      killPassword |-> ZeroPassword, accessPassword |-> ZeroPassword,
      hashed |-> <<>>, res |-> <<>> ]

\* calculateRES entered: it calls calculatePasswords without keys
enterCalculateRES(epcBytes, bytesToUse) ==
    enterCalculatePasswords("calculateRES", epcBytes, Undefined, Undefined, bytesToUse)

\* One step of an invocation, up to its next await or its return.  `hashed`
\* logs the messages handed to crypto.subtle.digest.
stepFrame(f) ==
    CASE f.pc = "L67" ->
            IF Truthy(f.killKey)
            THEN [f EXCEPT !.pc = "L68",
                    !.hashed = Append(@, passwordMessage(f.epcData, f.killKey, f.bytesToUse))]
            ELSE [f EXCEPT !.pc = "L72"]
      [] f.pc = "L68" ->
            [f EXCEPT !.pc = "L72",
                !.killPassword =
                    bytesToHexUpper(calculatePassword(f.epcData, f.killKey, f.bytesToUse))]
      [] f.pc = "L72" ->
            IF Truthy(f.accessKey)
            THEN [f EXCEPT !.pc = "L73",
                    !.hashed = Append(@, passwordMessage(f.epcData, f.accessKey, f.bytesToUse))]
            ELSE [f EXCEPT !.pc = "L77"]
      [] f.pc = "L73" ->
            [f EXCEPT !.pc = "L77",
                !.accessPassword =
                    bytesToHexUpper(calculatePassword(f.epcData, f.accessKey, f.bytesToUse))]
      [] f.pc = "L77" ->
            IF f.fn = "calculateRES" THEN [f EXCEPT !.pc = "L90"]
            ELSE [f EXCEPT !.pc = "returned"]
      [] f.pc = "L90" ->
            LET killBytes == hexPasswordToBytes(f.killPassword)
                accessBytes == hexPasswordToBytes(f.accessPassword)
            IN  [f EXCEPT !.pc = "returned", !.res = killBytes \o accessBytes]
      [] OTHER -> f

RECURSIVE runFrame(_)
runFrame(f) == IF f.pc \in {"returned", "idle"} THEN f ELSE runFrame(stepFrame(f))

\* What an invocation returns (calculatePasswords: the Passwords object;
\* calculateRES: the 8-byte array, in res)
returnValue(f) ==
    [ kill |-> IF f.fn = "calculateRES" THEN <<>> ELSE f.killPassword,
      access |-> IF f.fn = "calculateRES" THEN <<>> ELSE f.accessPassword,
      killKey |-> f.killKey, accessKey |-> f.accessKey,
      res |-> f.res ]

\* The value the promise of calculatePasswords resolves to
calculatePasswords(epcBytes, kKey, aKey, bytesToUse) ==
    returnValue(runFrame(enterCalculatePasswords("calculatePasswords", epcBytes, kKey, aKey, bytesToUse)))

\* The value the promise of calculateRES resolves to
calculateRES(epcBytes, bytesToUse) ==
    returnValue(runFrame(enterCalculateRES(epcBytes, bytesToUse))).res

(***************************************************************************)
(* +page.svelte: state, derived values, handlers                           *)
(***************************************************************************)
tagFormats == <<exampleTagFormat, bookWavesTagFormat>>

\* format.blocks.find(b => b.name === name)?.value ?? []
blockValue(format, name) ==
    LET found == {k \in 1..Len(format.blocks) : format.blocks[k].name = name}
    IN  IF found = {} THEN <<>>
        ELSE format.blocks[CHOOSE k \in found : \A m \in found : k <= m].value

\* The Uint8Array object that is the EPC-DATA value of tagFormats[idx]
formatDataRef(idx) == idx + 1

\* A fresh object id
newRef(h) == CHOOSE n \in 1..(Cardinality(DOMAIN h) + 1) : n \notin DOMAIN h

\* The heap with one more object
allocate(h, contents) == [r \in DOMAIN h \cup {newRef(h)} |-> IF r \in DOMAIN h THEN h[r] ELSE contents]

\* The objects still referenced once epcData refers to ref: the two formats'
\* EPC-DATA values and that buffer; the others are garbage and are dropped
reachable(h, ref) ==
    [r \in DOMAIN h \cap {formatDataRef(0), formatDataRef(1), ref} |-> h[r]]

\* (mutant) the element after the one meant is written
setElementOffByOne(arr, index, num) ==
    IF index + 1 >= 0 /\ index + 1 < Len(arr) THEN [arr EXCEPT ![index + 2] = num] ELSE arr

\* (mutant) an ordinary array: a write past the end lengthens it
setElementGrowing(arr, index, num) ==
    IF index >= 0 /\ index < Len(arr) THEN [arr EXCEPT ![index + 1] = num]
    ELSE IF index >= Len(arr)
         THEN [j \in 1..(index + 1) |-> IF j <= Len(arr) THEN arr[j] ELSE IF j = index + 1 THEN num ELSE 0]
         ELSE arr

\* typedArray[index] = num: ignored when index is no element of the array
setElement(arr, index, num) ==
    IF index >= 0 /\ index < Len(arr) THEN [arr EXCEPT ![index + 1] = num] ELSE arr

selectedFormatRecord == tagFormats[selectedFormat + 1]

librarySigleSize == IF selectedFormatRecord.name = "UB Dortmund 128-bit EPC" THEN 4 ELSE 4
\* (mutant) the BookWaves size not set
mediaNumberSizeSame == IF selectedFormatRecord.name = "UB Dortmund 128-bit EPC" THEN 8 ELSE 8

mediaNumberSize == IF selectedFormatRecord.name = "UB Dortmund 128-bit EPC" THEN 8 ELSE 10
bitflagsSize == IF selectedFormatRecord.name = "UB Dortmund 128-bit EPC" THEN 4 ELSE 2

\* (mutant) the last byte compared with 1 instead of its lowest bit tested
decodeSecurityStatusEqualsOne(bytes) ==
    LET lastByte == IF Len(bytes) = 0 THEN 0 ELSE bytes[Len(bytes)]
        isSecured == lastByte = 1
    IN  IF isSecured THEN "secured (in library)" ELSE "unsecured (lent out)"

\* decodeSecurityStatus
decodeSecurityStatus(bytes) ==
    LET lastByte == IF Len(bytes) = 0 THEN 0 ELSE bytes[Len(bytes)]
        isSecured == BitAnd(lastByte, 1) = 1
    IN  IF isSecured THEN "secured (in library)" ELSE "unsecured (lent out)"

securityStatus ==
    decodeSecurityStatus(Slice(heap[epcData], librarySigleSize + mediaNumberSize, Len(heap[epcData])))

\* The values the derived promises resolve to
passwords == calculatePasswords(heap[epcData], killKey, accessKey, selectedFormatRecord.passwordBytes)

\* (mutant) RES built from the passwords of the keys entered
resFromPasswords == hexPasswordToBytes(passwords.kill) \o hexPasswordToBytes(passwords.access)

res == calculateRES(heap[epcData], selectedFormatRecord.passwordBytes)

\* (mutant) the pattern without its anchors: /[0-9A-Fa-f]{1,2}/
isValidHexUnanchored(value) == \E k \in 1..Len(value) : IsHexDigit(value[k])

\* isValidHex: /^[0-9A-Fa-f]{1,2}$/.test(value)
isValidHex(value) ==
    /\ Len(value) \in 1..2
    /\ \A k \in 1..Len(value) : IsHexDigit(value[k])

\* (mutant) an accepted edit leaves the index marked
updateEpcDataKeepsMark(index, value) ==
    /\ nOps < MaxOps
    /\ nOps' = nOps + 1
    /\ IF ~isValidHex(value)
       THEN /\ invalidInputs' = invalidInputs \cup {index}
            /\ UNCHANGED <<heap, epcData>>
       ELSE LET num == parseInt16(value)
            IN  IF ~num.nan /\ num.num >= 0 /\ num.num <= 255
                THEN /\ heap' = reachable(allocate(heap, setElement(heap[epcData], index, num.num)),
                                            newRef(heap))
                     /\ epcData' = newRef(heap)
                     /\ invalidInputs' = invalidInputs
                ELSE /\ invalidInputs' = invalidInputs \cup {index}
                     /\ UNCHANGED <<heap, epcData>>
    /\ UNCHANGED <<selectedFormat, killKey, accessKey, calcVars, codec>>

selectFormat(idx) ==
    /\ nOps < MaxOps
    /\ selectedFormat' = idx
    /\ heap' = reachable(allocate(heap, blockValue(tagFormats[idx + 1], "EPC-DATA")), newRef(heap))
    /\ epcData' = newRef(heap)
    /\ invalidInputs' = {}
    /\ nOps' = nOps + 1
    /\ UNCHANGED <<killKey, accessKey, calcVars, codec>>

updateEpcData(index, value) ==
    /\ nOps < MaxOps
    /\ nOps' = nOps + 1
    /\ IF ~isValidHex(value)
       THEN /\ invalidInputs' = invalidInputs \cup {index}
            /\ UNCHANGED <<heap, epcData>>
       ELSE LET num == parseInt16(value)
            IN  IF ~num.nan /\ num.num >= 0 /\ num.num <= 255
                THEN /\ heap' = reachable(allocate(heap, setElement(heap[epcData], index, num.num)),
                                            newRef(heap))
                     /\ epcData' = newRef(heap)
                     /\ invalidInputs' = invalidInputs \ {index}
                ELSE /\ invalidInputs' = invalidInputs \cup {index}
                     /\ UNCHANGED <<heap, epcData>>
    /\ UNCHANGED <<selectedFormat, killKey, accessKey, calcVars, codec>>

\* The text inputs of the EPC-DATA row: one per element of each section's slice
Sections == {"librarySigle", "mediaNumber", "bitflags"}

sectionStart(section) ==
    CASE section = "librarySigle" -> 0
      [] section = "mediaNumber" -> librarySigleSize
      [] section = "bitflags" -> librarySigleSize + mediaNumberSize

sectionEnd(section) ==
    CASE section = "librarySigle" -> librarySigleSize
      [] section = "mediaNumber" -> librarySigleSize + mediaNumberSize
      [] section = "bitflags" -> librarySigleSize + mediaNumberSize + bitflagsSize

\* {#each [...epcData].slice(start, end) as byte, i}: the i of the inputs rendered
sectionInputs(section) ==
    0..(Len(Slice(heap[epcData], sectionStart(section), sectionEnd(section))) - 1)

\* The index an input passes to updateEpcData
inputIndex(section, i) ==
    CASE section = "librarySigle" -> i
      [] section = "mediaNumber" -> i + librarySigleSize
      [] section = "bitflags" -> i + librarySigleSize + mediaNumberSize

\* Texts typed into a byte input
InputValues ==
    { <<"E">>, <<"a","1">>,
      <<>>, <<"2","5","6">>, <<"-","1">>, <<"1","g">> }

\* Texts typed into the key inputs ("", "k", U+00E4)
KeyTexts == { <<>>, <<107>>, <<228>> }

\* oninput of a byte input
ByteInput ==
    /\ \E section \in Sections : \E i \in sectionInputs(section) : \E value \in InputValues :
            updateEpcData(inputIndex(section, i), value)
    /\ UNCHANGED extVars

\* onchange of the format select
FormatChange ==
    /\ \E idx \in 0..(Len(tagFormats) - 1) : selectFormat(idx)
    /\ UNCHANGED extVars

\* killKey = e.currentTarget.value
inputKillKey(text) ==
    /\ killKey' = text
    /\ UNCHANGED <<selectedFormat, heap, epcData, invalidInputs, accessKey, nOps, calcVars, codec>>

\* accessKey = e.currentTarget.value
inputAccessKey(text) ==
    /\ accessKey' = text
    /\ UNCHANGED <<selectedFormat, heap, epcData, invalidInputs, killKey, nOps, calcVars, codec>>

\* oninput of the kill key input
KillKeyInput ==
    /\ \E text \in KeyTexts : inputKillKey(text)
    /\ UNCHANGED extVars

\* oninput of the access key input
AccessKeyInput ==
    /\ \E text \in KeyTexts : inputAccessKey(text)
    /\ UNCHANGED extVars

(***************************************************************************)
(* $lib/urncode40: the Code 40 codec.  Its source is not among the files   *)
(* modelled above; it is modelled from its specified contract.  A text is  *)
(* a sequence of symbols; the 40 symbols have the values 0..39, value 0    *)
(* being the pad symbol.                                                   *)
(***************************************************************************)
Pad == "PAD"

Alphabet ==
    << Pad, "A", "B", "C", "D", "E", "F", "G", "H", "I", "J", "K", "L", "M",
       "N", "O", "P", "Q", "R", "S", "T", "U", "V", "W", "X", "Y", "Z",
       "-", ".", ":", "0", "1", "2", "3", "4", "5", "6", "7", "8", "9" >>

InAlphabet(c) == \E v \in 1..Len(Alphabet) : Alphabet[v] = c
valueOf(c) == (CHOOSE v \in 1..Len(Alphabet) : Alphabet[v] = c) - 1

MaxWord == 39999

\* word = v1*1600 + v2*40 + v3
packWord(v1, v2, v3) == v1 * 1600 + v2 * 40 + v3

RECURSIVE encodeGroups(_)
encodeGroups(values) ==
    IF values = <<>> THEN <<>>
    ELSE LET v1 == values[1]
             v2 == IF Len(values) >= 2 THEN values[2] ELSE valueOf(Pad)
             v3 == IF Len(values) >= 3 THEN values[3] ELSE valueOf(Pad)
             word == packWord(v1, v2, v3)
         IN  <<word \div 256, word % 256>> \o encodeGroups(SubSeq(values, 4, Len(values)))

\* encode(text) -> bytes, or InvalidCharacter
encode(text) ==
    IF \E k \in 1..Len(text) : ~InAlphabet(text[k])
    THEN [ok |-> FALSE, error |-> "InvalidCharacter", bytes |-> <<>>]
    ELSE [ok |-> TRUE, error |-> "",
          bytes |-> encodeGroups([k \in 1..Len(text) |-> valueOf(text[k])])]

\* The words of an even-length byte sequence, big-endian
wordsOf(bytes) == [k \in 1..(Len(bytes) \div 2) |-> bytes[2 * k - 1] * 256 + bytes[2 * k]]

RECURSIVE symbolsOf(_)
symbolsOf(words) ==
    IF words = <<>> THEN <<>>
    ELSE LET word == Head(words)
         IN  << Alphabet[(word \div 1600) + 1], Alphabet[((word \div 40) % 40) + 1],
                Alphabet[(word % 40) + 1] >> \o symbolsOf(Tail(words))

RECURSIVE trailingPads(_)
trailingPads(symbols) ==
    IF symbols # <<>> /\ symbols[Len(symbols)] = Pad
    THEN 1 + trailingPads(SubSeq(symbols, 1, Len(symbols) - 1))
    ELSE 0

\* decode(bytes) -> text, or InvalidLength / InvalidWord / InvalidCharacter
decode(bytes) ==
    IF Len(bytes) % 2 # 0 THEN [ok |-> FALSE, error |-> "InvalidLength", text |-> <<>>]
    ELSE IF \E k \in 1..(Len(bytes) \div 2) : wordsOf(bytes)[k] > MaxWord
    THEN [ok |-> FALSE, error |-> "InvalidWord", text |-> <<>>]
    ELSE LET symbols == symbolsOf(wordsOf(bytes))
             pads == trailingPads(symbols)
             kept == SubSeq(symbols, 1, Len(symbols) - pads)
         IN  IF pads > 2 \/ \E k \in 1..Len(kept) : kept[k] = Pad
             THEN [ok |-> FALSE, error |-> "InvalidCharacter", text |-> <<>>]
             ELSE [ok |-> TRUE, error |-> "", text |-> kept]

CodecIdle == codec = [pc |-> "idle", text |-> <<>>, encoded |-> encode(<<>>), decoded |-> decode(<<>>)]

(***************************************************************************)
(* +page.svelte: the decoded texts of the data sections.  A call either    *)
(* returns a value or throws: [throws, value].                             *)
(***************************************************************************)
Normal(v) == [throws |-> FALSE, value |-> v]

\* byteToHex
byteToHex(byte) == toUpperCase(padStart(toString16(byte), 2, "0"))

\* bytes.map(byteToHex).join('')
hexStringOf(bytes) == join([k \in 1..Len(bytes) |-> byteToHex(bytes[k])])

\* The bytes a string of hexadecimal digit pairs denotes
hexStringBytes(hexString) ==
    [k \in 1..(Len(hexString) \div 2) |->
        parseInt16(Slice(hexString, 2 * (k - 1), 2 * k)).num]

\* decode as the page imports it: it takes the hexadecimal string and returns
\* the text; a failure of the contract is returned, as no text, not thrown
decodeHexString(hexString) ==
    IF Len(hexString) % 2 # 0 THEN Normal(Undefined)
    ELSE LET r == decode(hexStringBytes(hexString))
         IN  Normal(IF r.ok THEN r.text ELSE Undefined)

InvalidURNCode40 ==
    <<"I","n","v","a","l","i","d"," ","U","R","N"," ","C","o","d","e"," ","4","0">>
InvalidHexValue ==
    <<"I","n","v","a","l","i","d"," ","h","e","x"," ","v","a","l","u","e">>

\* (mutant) the decoded value returned as it is, without `|| 'Invalid URN Code 40'`
decodeLibrarySignleNoFallback(bytes) == decodeHexString(hexStringOf(bytes))

\* decodeLibrarySignle: no try/catch, so a throw of decode leaves the function
decodeLibrarySignle(bytes) ==
    LET hexString == hexStringOf(bytes)
        decoded == decodeHexString(hexString)
    IN  IF decoded.throws THEN decoded
        ELSE Normal(IF Truthy(decoded.value) THEN decoded.value ELSE InvalidURNCode40)

\* digits * m + carry on decimal digits, least significant first
RECURSIVE mulAdd(_, _, _)
mulAdd(digits, m, carry) ==
    IF digits = <<>>
    THEN IF carry = 0 THEN <<>> ELSE <<carry % 10>> \o mulAdd(<<>>, m, carry \div 10)
    ELSE LET v == Head(digits) * m + carry
         IN  <<v % 10>> \o mulAdd(Tail(digits), m, v \div 10)

\* BigInt(`0x${hexString}`) as decimal digits, least significant first
RECURSIVE bigIntDigits(_, _)
bigIntDigits(hexString, acc) ==
    IF hexString = <<>> THEN acc
    ELSE bigIntDigits(Tail(hexString), mulAdd(acc, 16, HexValue(Head(hexString))))

\* BigInt.prototype.toString()
bigIntToString(digits) ==
    IF digits = <<>> THEN <<"0">>
    ELSE [k \in 1..Len(digits) |-> HexDigitsUpper[digits[Len(digits) + 1 - k] + 1]]

\* decodeMediaNumber: BigInt("0x") is a SyntaxError, which is caught
decodeMediaNumber(bytes) ==
    LET hexString == hexStringOf(bytes)
    IN  IF hexString = <<>> THEN Normal(InvalidHexValue)
        ELSE Normal(bigIntToString(bigIntDigits(hexString, <<>>)))

\* decodeURNCode40MediaNumber
decodeURNCode40MediaNumber(bytes) ==
    LET hexString == hexStringOf(bytes)
        decoded == decodeHexString(hexString)
    IN  IF decoded.throws THEN decoded
        ELSE Normal(IF Truthy(decoded.value) THEN decoded.value ELSE InvalidURNCode40)

decodedLibrarySignle == decodeLibrarySignle(Slice(heap[epcData], 0, librarySigleSize))

decodedMediaNumber ==
    IF selectedFormatRecord.name = "UB Dortmund 128-bit EPC"
    THEN decodeMediaNumber(Slice(heap[epcData], librarySigleSize, librarySigleSize + mediaNumberSize))
    ELSE decodeURNCode40MediaNumber(
            Slice(heap[epcData], librarySigleSize, librarySigleSize + mediaNumberSize))

\* Nothing rendered yet
DomInitial == [state |-> "initial", decodedLibrarySignle |-> <<>>, decodedMediaNumber |-> <<>>]

\* The template is rendered: "Decoded: {decodedLibrarySignle}" and
\* "Decoded: {decodedMediaNumber}" take the derived values, read from copies
\* of the buffer ([...epcData].slice).  A derived value that throws fails the
\* rendering.
Render ==
    /\ dom.state = "initial"
    /\ dom' = IF decodedLibrarySignle.throws \/ decodedMediaNumber.throws
              THEN [dom EXCEPT !.state = "failed"]
              ELSE [state |-> "rendered",
                    decodedLibrarySignle |-> decodedLibrarySignle.value,
                    decodedMediaNumber |-> decodedMediaNumber.value]
    /\ UNCHANGED <<pageVars, calcVars, codec, lastCall, asyncVars>>

\* The indices whose calls are recorded: two outside the buffer, three inside
EditIndices == {-1, 0, 5, 15, 16}

\* No call of updateEpcData for the index yet
NoCall == <<"no call">>

NoCalls == [i \in EditIndices |-> NoCall]

\* {#await promise}: the pending branch is shown
pendingBlock(id) == [promise |-> id, state |-> "pending", value |-> <<>>]

\* The template not rendered: no promise created, none awaited
NotMounted ==
    /\ derivations = <<>>
    /\ awaitBlocks = [kill |-> pendingBlock(-1), access |-> pendingBlock(-1)]
    /\ nStarted = 0

ExtIdle ==
    /\ dom = DomInitial
    /\ lastCall = NoCalls
    /\ NotMounted

PageInit ==
    /\ selectedFormat = 0
    /\ heap = allocate(
            [r \in {formatDataRef(0), formatDataRef(1)} |->
                blockValue(tagFormats[r], "EPC-DATA")],
            blockValue(exampleTagFormat, "EPC-DATA"))
    /\ epcData = 3
    /\ invalidInputs = {}
    /\ killKey = <<>>
    /\ accessKey = <<>>
    /\ nOps = 0

CalcIdle ==
    /\ args = [epcData |-> <<>>, killKey |-> Undefined, accessKey |-> Undefined, bytesToUse |-> 0]
    /\ frame = IdleFrame
    /\ done = <<>>
    /\ nCalls = 0

Init == PageInit /\ CalcIdle /\ CodecIdle /\ ExtIdle

Next == ByteInput \/ FormatChange \/ KillKeyInput \/ AccessKeyInput

\* The page driven by its inputs
Spec == Init /\ [][Next]_vars

\* The handlers called directly, with any index
CallIndices == -1..17

DirectUpdate ==
    /\ \E index \in CallIndices : \E value \in InputValues : updateEpcData(index, value)
    /\ UNCHANGED extVars

NextCalls == DirectUpdate \/ FormatChange

SpecCalls == Init /\ [][NextCalls]_vars

\* updateEpcData called, the call recorded
RecordedUpdate ==
    /\ \E index \in EditIndices : \E value \in InputValues :
        /\ updateEpcData(index, value)
        /\ lastCall' = [lastCall EXCEPT ![index] = value]
    /\ UNCHANGED <<dom, asyncVars>>

\* selectFormat called: the calls before it no longer count
RecordedSelect ==
    /\ \E idx \in 0..(Len(tagFormats) - 1) : selectFormat(idx)
    /\ lastCall' = NoCalls
    /\ UNCHANGED <<dom, asyncVars>>

NextEdits == RecordedUpdate \/ RecordedSelect

\* The handlers called, with their calls recorded
SpecEdits == Init /\ [][NextEdits]_vars

(***************************************************************************)
(* The derived promises (passwords, killPassword, accessPassword) and the  *)
(* two {#await} blocks.  A change of epcData, killKey, accessKey or        *)
(* selectedFormat makes the blocks read the derived values again: a new    *)
(* passwords promise is created by a new call of calculatePasswords, and   *)
(* both blocks await it, showing their pending branch.  The call runs up   *)
(* to its first digest at once; each digest resolves later, in any order   *)
(* with the digests of other calls and with the events.  The buffer a call *)
(* holds is never written once published (updateEpcData writes a copy), so *)
(* the call is modelled holding its contents; what its digests resolve to  *)
(* is then fixed when it starts, and the call is held as the sequence of   *)
(* frames it passes through: at its current await, after the next digest,  *)
(* and so on up to its return.                                             *)
(***************************************************************************)
\* (mutant) a block takes the value of any promise that resolves
thenCallbackUnguarded(block, id, value) == [block EXCEPT !.state = "then", !.value = value]

\* promise.then of an await block: the value is shown if the promise is still
\* the one the block awaits
thenCallback(block, id, value) ==
    IF block.promise = id THEN [block EXCEPT !.state = "then", !.value = value] ELSE block

\* An invocation run up to its next await of a digest, or to its return
RECURSIVE runToAwait(_)
runToAwait(f) ==
    IF f.pc \in {"L68", "L73", "returned", "idle"} THEN f ELSE runToAwait(stepFrame(f))

\* The passwords promise id resolves with what invocation f returns:
\* killPassword and accessPassword resolve with its kill and access
settle(blocks, id, f) ==
    [ kill |-> thenCallback(blocks.kill, id, returnValue(f).kill),
      access |-> thenCallback(blocks.access, id, returnValue(f).access) ]

\* The blocks once they await promise id, whose invocation has reached f
blocksAwaiting(id, f) ==
    LET blocks == [kill |-> pendingBlock(id), access |-> pendingBlock(id)]
    IN  IF f.pc = "returned" THEN settle(blocks, id, f) ELSE blocks

\* The frames an invocation standing at f passes through, f first
RECURSIVE framesFrom(_)
framesFrom(f) ==
    IF f.pc \in {"returned", "idle"} THEN <<f>>
    ELSE <<f>> \o framesFrom(runToAwait(stepFrame(f)))

\* The invocations running once that of promise id has reached f
withDerivation(running, id, f) ==
    IF f.pc = "returned" THEN running
    ELSE [k \in DOMAIN running \cup {id} |-> IF k = id THEN framesFrom(f) ELSE running[k]]

\* The page mounted: the template is rendered and the blocks await promise 0
Mounted ==
    LET f == runToAwait(enterCalculatePasswords("calculatePasswords", heap[epcData], killKey,
                            accessKey, selectedFormatRecord.passwordBytes))
    IN  /\ derivations = withDerivation(<<>>, 0, f)
        /\ awaitBlocks = blocksAwaiting(0, f)
        /\ nStarted = 1

\* The update after an event: nothing if no state read by passwords changed
Flush ==
    IF /\ epcData' = epcData
       /\ killKey' = killKey
       /\ accessKey' = accessKey
       /\ selectedFormat' = selectedFormat
    THEN UNCHANGED asyncVars
    ELSE LET f == runToAwait(enterCalculatePasswords("calculatePasswords", heap'[epcData'],
                        killKey', accessKey', tagFormats[selectedFormat' + 1].passwordBytes))
         IN  /\ derivations' = withDerivation(derivations, nStarted, f)
             /\ awaitBlocks' = blocksAwaiting(nStarted, f)
             /\ nStarted' = nStarted + 1

\* Inputs of the page while its promises are followed
AsyncIndices == {0, 13}
AsyncValues == { <<"E">>, <<"1","g">> }
AsyncKeyTexts == { <<>>, <<107>>, <<228>> }

AsyncByteInput ==
    /\ nStarted < MaxDerivations
    /\ \E index \in AsyncIndices : \E value \in AsyncValues : updateEpcData(index, value)
    /\ Flush
    /\ UNCHANGED <<dom, lastCall>>

AsyncFormatChange ==
    /\ nStarted < MaxDerivations
    /\ \E idx \in 0..(Len(tagFormats) - 1) : selectFormat(idx)
    /\ Flush
    /\ UNCHANGED <<dom, lastCall>>

AsyncKillKeyInput ==
    /\ nStarted < MaxDerivations
    /\ \E text \in AsyncKeyTexts : inputKillKey(text)
    /\ Flush
    /\ UNCHANGED <<dom, lastCall>>

AsyncAccessKeyInput ==
    /\ nStarted < MaxDerivations
    /\ \E text \in AsyncKeyTexts : inputAccessKey(text)
    /\ Flush
    /\ UNCHANGED <<dom, lastCall>>

\* A digest awaited by the invocation of promise id resolves: the invocation
\* runs on to its next digest, or returns, and then its promise resolves
DigestResolves(id) ==
    /\ id \in DOMAIN derivations
    /\ LET f == derivations[id][2]
       IN  IF f.pc = "returned"
           THEN /\ derivations' = [k \in DOMAIN derivations \ {id} |-> derivations[k]]
                /\ awaitBlocks' = settle(awaitBlocks, id, f)
           ELSE /\ derivations' = [derivations EXCEPT ![id] = Tail(@)]
                /\ UNCHANGED awaitBlocks
    /\ UNCHANGED <<nStarted, pageVars, calcVars, codec, dom, lastCall>>

SomeDigestResolves == \E id \in 0..(MaxDerivations - 1) : DigestResolves(id)

NextAsync ==
    \/ AsyncByteInput
    \/ AsyncFormatChange
    \/ AsyncKillKeyInput
    \/ AsyncAccessKeyInput
    \/ SomeDigestResolves

InitAsync ==
    /\ PageInit
    /\ CalcIdle
    /\ CodecIdle
    /\ dom = DomInitial
    /\ lastCall = NoCalls
    /\ Mounted

\* The page with its promises
SpecAsync == InitAsync /\ [][NextAsync]_vars

\* Every digest requested resolves
SpecAsyncFair == SpecAsync /\ WF_vars(SomeDigestResolves)

(***************************************************************************)
(* A caller of TagFormat.ts: it picks the arguments once, then invokes     *)
(* calculatePasswords and calculateRES on them; every await of an         *)
(* invocation is a step of its own.                                        *)
(***************************************************************************)
\* Data blocks passed: the two formats' defaults, and each with one byte changed
ChangedIndices == {11, 12, 13, 14}

DataBlocks ==
    LET defaults == {blockValue(tagFormats[k], "EPC-DATA") : k \in 1..Len(tagFormats)}
    IN  defaults \cup {setElement(d, i, 254) : d \in defaults, i \in ChangedIndices}

\* Secrets passed: "", "k", "k1", U+00E4, U+20AC
Secrets == { <<>>, <<107>>, <<107, 49>>, <<228>>, <<8364>> }
OptionalSecrets == Secrets \cup {Undefined}

\* Prefix lengths passed
PrefixLengths == {0, 12, 14, 17}

CalcInit ==
    /\ args \in [epcData : DataBlocks, killKey : OptionalSecrets,
                 accessKey : OptionalSecrets, bytesToUse : PrefixLengths]
    /\ frame = IdleFrame
    /\ done = <<>>
    /\ nCalls = 0

InvokeCalculatePasswords ==
    /\ frame.pc = "idle"
    /\ nCalls < MaxCalls
    /\ frame' = enterCalculatePasswords("calculatePasswords", args.epcData, args.killKey,
                                        args.accessKey, args.bytesToUse)
    /\ nCalls' = nCalls + 1
    /\ UNCHANGED <<args, done, pageVars, codec, extVars>>

InvokeCalculateRES ==
    /\ frame.pc = "idle"
    /\ nCalls < MaxCalls
    /\ frame' = enterCalculateRES(args.epcData, args.bytesToUse)
    /\ nCalls' = nCalls + 1
    /\ UNCHANGED <<args, done, pageVars, codec, extVars>>

\* The invocation runs to its next await, or the awaited digest resolves
Resume ==
    /\ frame.pc \notin {"idle", "returned"}
    /\ frame' = stepFrame(frame)
    /\ UNCHANGED <<args, done, nCalls, pageVars, codec, extVars>>

\* The invocation's promise resolves
Return ==
    /\ frame.pc = "returned"
    /\ done' = Append(done, [fn |-> frame.fn, hashed |-> frame.hashed, ret |-> returnValue(frame)])
    /\ frame' = IdleFrame
    /\ UNCHANGED <<args, nCalls, pageVars, codec, extVars>>

NextCalc == InvokeCalculatePasswords \/ InvokeCalculateRES \/ Resume \/ Return

InitCalc == PageInit /\ CalcInit /\ CodecIdle /\ ExtIdle

SpecCalc == InitCalc /\ [][NextCalc]_vars

(***************************************************************************)
(* Properties of the password derivation (checked under SpecCalc)         *)
(***************************************************************************)
PasswordsReturned == {done[k] : k \in {j \in 1..Len(done) : done[j].fn = "calculatePasswords"}}

Absent(secret) == secret = Undefined \/ secret = <<>>

\* The first n bytes of a block, by index
Prefix(block, n) == [i \in 1..Min(n, Len(block)) |-> block[i]]

\* The UTF-8 bytes of the secrets of the model, written out
Utf8Of(secret) ==
    CASE secret = <<>> -> <<>>
      [] secret = <<107>> -> <<107>>
      [] secret = <<107, 49>> -> <<107, 49>>
      [] secret = <<228>> -> <<195, 164>>
      [] secret = <<8364>> -> <<226, 130, 172>>

\* C1: a secret that is absent (undefined) or the empty string yields the
\* password "00000000" for its own field, whatever the other secret is, and
\* no hash is computed for it: the digests requested are exactly those of the
\* secrets present. With both absent the result is 00000000 / 00000000.
C1_AbsentSecretYieldsZeroPassword ==
    \A r \in PasswordsReturned :
        /\ Absent(args.killKey) => r.ret.kill = ZeroPassword
        /\ Absent(args.accessKey) => r.ret.access = ZeroPassword
        /\ Len(r.hashed) = (IF Absent(args.killKey) THEN 0 ELSE 1)
                           + (IF Absent(args.accessKey) THEN 0 ELSE 1)

C1_Witness ==
    /\ args.killKey = <<>>
    /\ args.accessKey = <<107>>
    /\ \E r \in PasswordsReturned :
        r.ret.kill = ZeroPassword /\ r.ret.access # ZeroPassword /\ Len(r.hashed) = 1

\* C3: the kill password returned is the rendering of the first 4 digest bytes
\* of exactly (the first bytesToUse bytes of the block, then the UTF-8 bytes of
\* the secret); every block that agrees with the one passed on the indices
\* below bytesToUse gives the same password for the same secret; and two
\* invocations on the same arguments return the same value.
C3_PasswordDependsOnPrefixAndSecretOnly ==
    /\ \A r \in PasswordsReturned :
        ~Absent(args.killKey) =>
            /\ r.hashed[1] = Prefix(args.epcData, args.bytesToUse) \o Utf8Of(args.killKey)
            /\ r.ret.kill = bytesToHexUpper(SubSeq(digestSHA512(r.hashed[1]), 1, 4))
            /\ \A other \in DataBlocks :
                Prefix(other, args.bytesToUse) = Prefix(args.epcData, args.bytesToUse) =>
                    calculatePasswords(other, args.killKey, Undefined, args.bytesToUse).kill
                        = r.ret.kill
    /\ \A j, k \in 1..Len(done) : done[j].fn = done[k].fn => done[j] = done[k]

C3_Witness ==
    /\ args.bytesToUse = 12
    /\ args.killKey = <<228>>
    /\ args.epcData = setElement(blockValue(exampleTagFormat, "EPC-DATA"), 13, 254)
    /\ Len(done) = 2
    /\ done[1].fn = "calculatePasswords"
    /\ done[2].fn = "calculatePasswords"
    /\ \E r \in PasswordsReturned :
        /\ r.ret.kill # ZeroPassword
        /\ r.ret.kill = calculatePasswords(blockValue(exampleTagFormat, "EPC-DATA"),
                                           args.killKey, Undefined, 12).kill
        /\ r.ret.kill # calculatePasswords(
                            setElement(blockValue(exampleTagFormat, "EPC-DATA"), 11, 254),
                            args.killKey, Undefined, 12).kill

\* C4: the kill password does not change with the access key, nor the access
\* password with the kill key; passing the two keys swapped returns the two
\* passwords swapped; each depends on the block only through its prefix.
C4_KillAndAccessIndependent ==
    \A r \in PasswordsReturned :
        /\ \A secret \in OptionalSecrets :
            /\ calculatePasswords(args.epcData, args.killKey, secret, args.bytesToUse).kill
                    = r.ret.kill
            /\ calculatePasswords(args.epcData, secret, args.accessKey, args.bytesToUse).access
                    = r.ret.access
        /\ LET swapped == calculatePasswords(args.epcData, args.accessKey, args.killKey,
                                             args.bytesToUse)
           IN  swapped.kill = r.ret.access /\ swapped.access = r.ret.kill
        /\ \A other \in DataBlocks :
            Prefix(other, args.bytesToUse) = Prefix(args.epcData, args.bytesToUse) =>
                LET o == calculatePasswords(other, args.killKey, args.accessKey, args.bytesToUse)
                IN  o.kill = r.ret.kill /\ o.access = r.ret.access

C4_Witness ==
    /\ args.killKey = <<107>>
    /\ args.accessKey = <<8364>>
    /\ args.bytesToUse = 14
    /\ \E r \in PasswordsReturned :
        /\ Len(r.hashed) = 2
        /\ r.ret.kill # r.ret.access
        /\ r.ret.kill # ZeroPassword
        /\ r.ret.access # ZeroPassword

(***************************************************************************)
(* Properties of the page (checked under Spec and SpecCalls)               *)
(***************************************************************************)
DataIndices == 0..15

\* Texts that are not one or two hexadecimal digits
RejectedTexts == { <<>>, <<"2","5","6">>, <<"-","1">>, <<"1","g">> }

\* Texts that are, with the byte each denotes
AcceptedTexts == { <<"E">>, <<"a","1">> }
ByteOf(text) ==
    CASE text = <<"E">> -> 14
      [] text = <<"a","1">> -> 161

ExampleData == <<25, 233, 248, 113, 0, 0, 0, 0, 7, 91, 205, 21, 0, 0, 0, 1>>
BookWavesData == <<25, 233, 248, 113, 32, 33, 34, 35, 36, 37, 38, 39, 40, 41, 0, 1>>
EightZeroBytes == <<0, 0, 0, 0, 0, 0, 0, 0>>

\* C2: the RES value of the page is eight zero bytes whatever keys, data bytes
\* and format have been entered, and calculateRES on the page's data gives
\* eight zero bytes for every prefix length.
C2_ResIsNoSecretSentinel ==
    /\ res = EightZeroBytes
    /\ \A n \in PrefixLengths : calculateRES(heap[epcData], n) = EightZeroBytes

C2_Witness ==
    /\ killKey = <<107>>
    /\ accessKey = <<228>>
    /\ selectedFormat = 1
    /\ heap[epcData] # BookWavesData
    /\ passwords.kill # ZeroPassword
    /\ passwords.access # ZeroPassword
    /\ passwords.kill # passwords.access
    /\ res = EightZeroBytes

\* C5: an edit whose text is not one or two hexadecimal digits ("", "256",
\* "-1", "1g") leaves epcData, and every buffer, as it was, and marks the
\* index invalid.
C5_RejectedEditLeavesDataUnchanged ==
    [][\A index \in CallIndices : \A value \in RejectedTexts :
        updateEpcData(index, value) =>
            /\ epcData' = epcData
            /\ heap' = heap
            /\ index \in invalidInputs']_vars

C5_Witness ==
    /\ 5 \in invalidInputs
    /\ heap[epcData] = [j \in 1..16 |-> IF j = 6 THEN 14 ELSE ExampleData[j]]

\* C6 as stated: an accepted edit writes the new value into the buffer epcData
\* refers to, which stays the same object.
C6_EditInPlace ==
    [][\A index \in DataIndices : \A value \in AcceptedTexts :
        updateEpcData(index, value) =>
            /\ epcData' = epcData
            /\ heap'[epcData] = [heap[epcData] EXCEPT ![index + 1] = ByteOf(value)]]_vars

\* C6 amended: an accepted edit at index i makes epcData a fresh buffer, a copy
\* of the previous one with byte i replaced; no buffer that stays reachable is
\* written.
\* Byte i then holds the new value and every other byte the value it had.
C6_EditCopiesAndSetsOneByte ==
    [][\A index \in DataIndices : \A value \in AcceptedTexts :
        updateEpcData(index, value) =>
            /\ epcData' \notin DOMAIN heap
            /\ \A r \in DOMAIN heap \cap DOMAIN heap' : heap'[r] = heap[r]
            /\ {formatDataRef(0), formatDataRef(1)} \subseteq DOMAIN heap' 
            /\ heap'[epcData'] =
                [j \in 1..16 |-> IF j = index + 1 THEN ByteOf(value) ELSE heap[epcData][j]]]_vars

C6_Witness ==
    /\ 3 \in invalidInputs
    /\ epcData # 3
    /\ heap[formatDataRef(0)] = ExampleData
    /\ heap[epcData] = [j \in 1..16 |-> IF j = 10 THEN 161 ELSE ExampleData[j]]

\* C7: every block value of both formats has sizeBits/8 bytes, and every data
\* buffer of the page, epcData included, has 16 bytes after any calls of
\* updateEpcData (any index) and selectFormat.
C7_BufferLengthsFixed ==
    /\ \A k \in 1..Len(tagFormats) : \A b \in 1..Len(tagFormats[k].blocks) :
        8 * Len(tagFormats[k].blocks[b].value) = tagFormats[k].blocks[b].sizeBits
    /\ Len(heap[epcData]) = 16
    /\ \A r \in DOMAIN heap : Len(heap[r]) = 16

C7_Witness ==
    /\ 16 \in invalidInputs
    /\ heap[epcData] # ExampleData
    /\ heap[epcData] # BookWavesData
    /\ Len(heap[epcData]) = 16

\* The window of each section, per format, written out
WindowOf(format, section) ==
    CASE format = 0 /\ section = "librarySigle" -> 0..3
      [] format = 0 /\ section = "mediaNumber" -> 4..11
      [] format = 0 /\ section = "bitflags" -> 12..15
      [] format = 1 /\ section = "librarySigle" -> 0..3
      [] format = 1 /\ section = "mediaNumber" -> 4..13
      [] format = 1 /\ section = "bitflags" -> 14..15

RenderedInputs == UNION {{<<section, i>> : i \in sectionInputs(section)} : section \in Sections}

\* C8: the three section sizes are 4+8+4 (UB Dortmund) and 4+10+2 (BookWaves)
\* and sum to the 16 bytes of the data block; the inputs rendered pass pairwise
\* distinct indices, each inside its own section's window, and together every
\* index 0..15.
C8_SectionsPartitionDataBlock ==
    /\ <<librarySigleSize, mediaNumberSize, bitflagsSize>>
            = (IF selectedFormat = 0 THEN <<4, 8, 4>> ELSE <<4, 10, 2>>)
    /\ librarySigleSize + mediaNumberSize + bitflagsSize = Len(heap[epcData])
    /\ \A p, q \in RenderedInputs : p # q => inputIndex(p[1], p[2]) # inputIndex(q[1], q[2])
    /\ \A p \in RenderedInputs : inputIndex(p[1], p[2]) \in WindowOf(selectedFormat, p[1])
    /\ {inputIndex(p[1], p[2]) : p \in RenderedInputs} = DataIndices

C8_Witness ==
    /\ selectedFormat = 1
    /\ heap[epcData] = [j \in 1..16 |-> IF j = 15 THEN 161 ELSE BookWavesData[j]]
    /\ <<"bitflags", 0>> \in RenderedInputs
    /\ inputIndex("bitflags", 0) = 14

\* C9: the status shown is 'secured (in library)' exactly when the lowest bit
\* of byte 15, the last byte of the status section, is 1; a block with the same
\* lowest bit there decodes to the same status whatever its other bits.
C9_StatusIsLowestBitOfLastByte ==
    /\ securityStatus =
        (IF heap[epcData][16] % 2 = 1 THEN "secured (in library)" ELSE "unsecured (lent out)")
    /\ \A other \in DataBlocks : \A last \in {0, 1, 128, 161, 254, 255} :
        last % 2 = heap[epcData][16] % 2 =>
            decodeSecurityStatus(
                Slice(setElement(other, 15, last), librarySigleSize + mediaNumberSize, 16))
                = securityStatus

C9_Witness ==
    /\ heap[epcData][16] = 161
    /\ securityStatus = "secured (in library)"
    /\ selectedFormat = 1

(***************************************************************************)
(* One use of the codec: a text is encoded, and the bytes decoded.         *)
(***************************************************************************)
MaxTextLen == 4

\* Symbols of the texts tried: values 1, 24, 25, 39, 27, the pad, and "a",
\* which is no symbol of the alphabet
TextSymbols == {"A", "X", "Y", "9", "-", Pad, "a"}

Texts == UNION {[1..n -> TextSymbols] : n \in 0..MaxTextLen}

CodecInit ==
    codec \in {[pc |-> "text", text |-> t, encoded |-> encode(<<>>), decoded |-> decode(<<>>)] :
                t \in Texts}

Encode ==
    /\ codec.pc = "text"
    /\ codec' = [codec EXCEPT !.pc = "encoded", !.encoded = encode(codec.text)]
    /\ UNCHANGED <<pageVars, calcVars, extVars>>

Decode ==
    /\ codec.pc = "encoded"
    /\ codec.encoded.ok
    /\ codec' = [codec EXCEPT !.pc = "decoded", !.decoded = decode(codec.encoded.bytes)]
    /\ UNCHANGED <<pageVars, calcVars, extVars>>

NextCodec == Encode \/ Decode

InitCodec == PageInit /\ CalcIdle /\ CodecInit /\ ExtIdle

SpecCodec == InitCodec /\ [][NextCodec]_vars

\* ceil(n / 3)
CeilThird(n) == (n + 2) \div 3

PadFreeAlphabetText(text) ==
    \A k \in 1..Len(text) : text[k] \in {"A", "X", "Y", "9", "-"}

\* C10: for every text of alphabet symbols without the pad symbol, encode gives
\* ceil(len/3)*2 bytes and decoding them gives the text back, also when the
\* length is no multiple of 3.
C10_RoundTrip ==
    PadFreeAlphabetText(codec.text) =>
        /\ codec.pc \in {"encoded", "decoded"} =>
            /\ codec.encoded.ok
            /\ Len(codec.encoded.bytes) = CeilThird(Len(codec.text)) * 2
        /\ codec.pc = "decoded" =>
            /\ codec.decoded.ok
            /\ codec.decoded.text = codec.text

(***************************************************************************)
(* The page mounted on a data block whose identifier and number sections   *)
(* hold chosen 16-bit words, and rendered.                                 *)
(***************************************************************************)
\* Words tried: three pads; a pad before two symbols; "A" and two pads; "AAA";
\* the largest word decode accepts; the next one; the word of the formats'
\* default bytes F8 71
SampleWords == {0, 41, 1600, 1641, 39999, 40000, 63601}

wordBytes(word) == <<word \div 256, word % 256>>

\* Data blocks: any sample word in each half of the identifier section and in
\* the first and the last word of the BookWaves number section
DecodeBlocks ==
    { wordBytes(w1) \o wordBytes(w2) \o wordBytes(w3) \o wordBytes(1641) \o wordBytes(1641)
        \o wordBytes(1641) \o wordBytes(w7) \o <<0, 1>> :
        w1 \in SampleWords, w2 \in SampleWords, w3 \in SampleWords, w7 \in SampleWords }

InitDecode ==
    /\ selectedFormat \in 0..(Len(tagFormats) - 1)
    /\ \E block \in DecodeBlocks :
        heap = allocate(
                [r \in {formatDataRef(0), formatDataRef(1)} |->
                    blockValue(tagFormats[r], "EPC-DATA")],
                block)
    /\ epcData = 3
    /\ invalidInputs = {}
    /\ killKey = <<>>
    /\ accessKey = <<>>
    /\ nOps = 0
    /\ CalcIdle
    /\ CodecIdle
    /\ ExtIdle

NextDecode == Render

SpecDecode == InitDecode /\ [][NextDecode]_vars

IdentifierBytes == Slice(heap[epcData], 0, 4)
BookWavesNumberBytes == Slice(heap[epcData], 4, 14)

C13_InvalidMarksFollowLatestCall ==
    /\ [](\A i \in EditIndices : i \in invalidInputs <=> lastCall[i] \in RejectedTexts)
    /\ [](invalidInputs \subseteq EditIndices)
    /\ [][\A idx \in 0..(Len(tagFormats) - 1) :
            selectFormat(idx) =>
                /\ invalidInputs' = {}
                /\ epcData' \notin DOMAIN heap
                /\ heap'[epcData'] = blockValue(tagFormats[idx + 1], "EPC-DATA")
                /\ heap'[formatDataRef(idx)] = blockValue(tagFormats[idx + 1], "EPC-DATA")]_vars

C13_Witness ==
    /\ invalidInputs = {5}
    /\ lastCall[5] = <<"1","g">>
    /\ lastCall[0] = <<"E">>
    /\ heap[epcData] = [j \in 1..16 |-> IF j = 1 THEN 14 ELSE ExampleData[j]]

(***************************************************************************)
(* Properties of the passwords shown (checked under SpecAsyncFair)         *)
(***************************************************************************)
\* Both blocks show the passwords of the current data block, keys and format
ShownCurrent ==
    /\ awaitBlocks.kill.state = "then"
    /\ awaitBlocks.kill.value = passwords.kill
    /\ awaitBlocks.access.state = "then"
    /\ awaitBlocks.access.value = passwords.access

\* The promise created last has resolved
LatestResolved == (nStarted - 1) \notin DOMAIN derivations

\* C12: after any byte edits, key edits and format selections, with digests
\* resolving in any order, whenever the derivation started last has resolved
\* the two passwords shown are those of the current data block, keys and
\* selected format's passwordBytes, whatever earlier derivation resolves
\* before or after it; and once the edits end they are shown eventually and
\* stay shown.
C12_ShownPasswordsAreCurrent ==
    /\ [](LatestResolved => ShownCurrent)
    /\ <>[]ShownCurrent

\* The latest derivation has resolved and its passwords are shown while an
\* earlier one, started for other inputs, is still running
C12_Witness ==
    /\ nStarted = 3
    /\ LatestResolved
    /\ 1 \in DOMAIN derivations
    /\ derivations[1][1].killKey # killKey
    /\ killKey # <<>>
    /\ ShownCurrent
    /\ awaitBlocks.kill.value # ZeroPassword

=============================================================================
